---- MODULE Spec2Model ----
(***************************************************************************)
(* Model of Stoker_Scraper.py: the login / terms / telemetry session       *)
(* handling of safe_get_hopper and the polling-and-alerting loop of main.  *)
(*                                                                         *)
(* Masses are integers in tenths of a kilogram (139.9 kg is 1399).         *)
(* Time is in whole seconds.  The code reads last_alert_time only through  *)
(* the difference now - last_alert_time (line 189), so the model keeps     *)
(* that difference (an age) and lets it grow as calls block and the loop   *)
(* sleeps; ages above the alert interval are indistinguishable to the code *)
(* and are kept at AgeCap.                                                 *)
(***************************************************************************)
EXTENDS Integers, Sequences, FiniteSets, TLC

\* ---- bounds of the model
\* longest time, in seconds, one HTTP call blocks
MaxDelay == 1
\* how far above the alert interval an age is still counted
AgeSlack == 1

\* ---- configuration (module-level settings of the script)
LOW_THRESHOLD_KG == 140
MIN_ALERT_INTERVAL_MIN == 2
\* CHECK_INTERVAL_SECONDS values the runs are configured with
CheckIntervals == {59, 60}
\* NTFY_SERVER is either unset (None) or a server URL
NtfyServers == {"None", "https://ntfy.example"}

\* Python's None for the numeric locals (hopper_kg, last_alert_time)
None == -1
\* Python's None for strings is the string "None"
Tokens == {"t1", "t2"}

MinAlertIntervalNoScale == MIN_ALERT_INTERVAL_MIN
\* MIN_ALERT_INTERVAL_MIN * 60, the right-hand side of line 190
MinAlertIntervalSeconds == MIN_ALERT_INTERVAL_MIN * 60

AgeCap == MIN_ALERT_INTERVAL_MIN * 60 + AgeSlack

Min(a, b) == IF a <= b THEN a ELSE b

\* an age after d more seconds of wall-clock time
Tick(age, d) == IF age = None THEN None ELSE Min(age + d, AgeCap)

\* ---- login_and_get_token

\* values a key of the login response may hold: absent, empty, or a token
TokVals == {"None", ""} \cup Tokens
Falsy == {"None", ""}

LoginResponses ==
    [kind : {"json"}, token : TokVals, Token : TokVals, TOKEN : TokVals]
    \cup [kind : {"http_error", "not_json"},
          token : {"None"}, Token : {"None"}, TOKEN : {"None"}]

TokenOfUpperFirst(data) ==
    IF data.TOKEN \notin Falsy THEN data.TOKEN
    ELSE IF data.Token \notin Falsy THEN data.Token
    ELSE data.token

\* data.get("token") or data.get("Token") or data.get("TOKEN")
TokenOf(data) ==
    IF data.token \notin Falsy THEN data.token
    ELSE IF data.Token \notin Falsy THEN data.Token
    ELSE data.TOKEN

\* the outcome of login_and_get_token on a response: a token, or an exception
login_and_get_token(resp) ==
    IF resp.kind # "json" THEN [ok |-> FALSE, token |-> "None"]
    ELSE IF TokenOf(resp) \in Falsy THEN [ok |-> FALSE, token |-> "None"]
    ELSE [ok |-> TRUE, token |-> TokenOf(resp)]

\* ---- get_hopper_kg

Digits == {"0", "1", "2", "3", "4", "5", "6", "7", "8", "9"}

DigitVal(c) ==
    CASE c = "0" -> 0 [] c = "1" -> 1 [] c = "2" -> 2 [] c = "3" -> 3
      [] c = "4" -> 4 [] c = "5" -> 5 [] c = "6" -> 6 [] c = "7" -> 7
      [] c = "8" -> 8 [] c = "9" -> 9

\* raw_val.replace(",", ".")
ReplaceComma(s) == [i \in DOMAIN s |-> IF s[i] = "," THEN "." ELSE s[i]]

RECURSIVE DigitsToInt(_)
DigitsToInt(s) ==
    IF s = <<>> THEN 0
    ELSE DigitsToInt(SubSeq(s, 1, Len(s) - 1)) * 10 + DigitVal(s[Len(s)])

\* float(s) for the decimal strings the model feeds it (at most one digit
\* after the point), in tenths; ok = FALSE is Python's ValueError
ParseFloat(s) ==
    LET dots == {i \in DOMAIN s : s[i] = "."}
        wellFormed == /\ \A i \in DOMAIN s : s[i] \in Digits \cup {"."}
                      /\ Cardinality(dots) <= 1
                      /\ \E i \in DOMAIN s : s[i] \in Digits
    IN  IF ~wellFormed THEN [ok |-> FALSE, kg |-> None]
        ELSE LET p == IF dots = {} THEN Len(s) + 1 ELSE CHOOSE i \in dots : TRUE
                 whole == SubSeq(s, 1, p - 1)
                 frac == SubSeq(s, p + 1, Len(s))
             IN  [ok |-> TRUE,
                  kg |-> DigitsToInt(whole) * 10
                         + (IF frac = <<>> THEN 0 ELSE DigitVal(frac[1]))]

IsHopperContent(item) == item.id = "hoppercontent"
IsHopperData3(item) == item.id = "3" /\ item.unit = "LNG_KG"

\* the loop without its break: the last matching item wins
ScanFrontdataNoBreak(field) ==
    IF field.islist /\ \E i \in DOMAIN field.items : IsHopperContent(field.items[i])
    THEN CHOOSE i \in DOMAIN field.items :
            /\ IsHopperContent(field.items[i])
            /\ \A j \in (i + 1)..Len(field.items) : ~IsHopperContent(field.items[j])
    ELSE 0

\* lines 88-98: index of the first frontdata item with id "hoppercontent";
\* 0 when frontdata is not a list or holds no such item
ScanFrontdata(field) ==
    IF field.islist /\ \E i \in DOMAIN field.items : IsHopperContent(field.items[i])
    THEN CHOOSE i \in DOMAIN field.items :
            /\ IsHopperContent(field.items[i])
            /\ \A j \in 1..(i - 1) : ~IsHopperContent(field.items[j])
    ELSE 0

\* lines 101-114: index of the first hopperdata item with id "3" and unit
\* "LNG_KG"; 0 when hopperdata is not a list or holds no such item
ScanHopperdata(field) ==
    IF field.islist /\ \E i \in DOMAIN field.items : IsHopperData3(field.items[i])
    THEN CHOOSE i \in DOMAIN field.items :
            /\ IsHopperData3(field.items[i])
            /\ \A j \in 1..(i - 1) : ~IsHopperData3(field.items[j])
    ELSE 0

\* get_hopper_kg on a response: the reading, or the exception raised
get_hopper_kg(resp) ==
    IF resp.kind # "json" THEN [ok |-> FALSE, kg |-> None, err |-> resp.kind]
    ELSE
      LET f == ScanFrontdata(resp.frontdata)
          h == ScanHopperdata(resp.hopperdata)
          parsed == IF f # 0 THEN ParseFloat(ReplaceComma(resp.frontdata.items[f].value))
                    ELSE ParseFloat(ReplaceComma(resp.hopperdata.items[h].value))
      IN  IF f = 0 /\ h = 0
          THEN [ok |-> FALSE, kg |-> None, err |-> "RuntimeError"]
          ELSE IF ~parsed.ok
          THEN [ok |-> FALSE, kg |-> None, err |-> "ValueError"]
          ELSE [ok |-> TRUE, kg |-> parsed.kg, err |-> "none"]

\* exceptions get_hopper_kg raises after the request itself succeeded
ExtractionErrors == {"RuntimeError", "ValueError"}

\* ---- telemetry responses the server may give

\* str(item.get("value")) of the items
RawValues ==
    { <<"1", "3", "9", ",", "9">>,      \* "139,9"
      <<"1", "4", "0">>,                \* "140"
      <<"1", "4", "0", ".", "1">>,      \* "140.1"
      <<"N", "o", "n", "e">> }          \* no value key

FrontItem(v) == [id |-> "hoppercontent", unit |-> "None", value |-> v]
HopperItem(v) == [id |-> "3", unit |-> "LNG_KG", value |-> v]
OtherFront == [id |-> "boilertemp", unit |-> "None", value |-> <<"6", "5">>]
OtherHopper == [id |-> "3", unit |-> "LNG_L", value |-> <<"7">>]

List(items) == [islist |-> TRUE, items |-> items]
NotAList == [islist |-> FALSE, items |-> <<>>]

FrontDatas ==
    {List(<<>>), NotAList, List(<<OtherFront>>)}
    \cup {List(<<OtherFront, FrontItem(v)>>) : v \in RawValues}

HopperDatas ==
    {List(<<>>), NotAList, List(<<OtherHopper>>)}
    \cup {List(<<OtherHopper, HopperItem(v)>>) : v \in RawValues}

FetchResponses ==
    [kind : {"json"}, frontdata : FrontDatas, hopperdata : HopperDatas]
    \cup [kind : {"http_error", "not_json"},
          frontdata : {List(<<>>)}, hopperdata : {List(<<>>)}]

\* ---- state

VARIABLES
    pc,               \* the statement main is at
    token,            \* main's token
    new_token,        \* safe_get_hopper's new_token
    hopper_kg,        \* main's hopper_kg, in tenths of a kilogram
    last_alert_age,   \* now - last_alert_time in seconds, None while it is None
    NTFY_SERVER,      \* configuration: the notification server
    CHECK_INTERVAL,   \* configuration: seconds slept between cycles
    requests,         \* the HTTP requests issued since startup or since the last sleep
    post_age,         \* seconds since the last notification POST was issued
    issued,           \* the tokens login_and_get_token has returned so far
    accepted,         \* the tokens accept_terms has succeeded with so far
    probe             \* one call of a pure function: its argument and its result

vars == <<pc, token, new_token, hopper_kg, last_alert_age, NTFY_SERVER,
          CHECK_INTERVAL, requests, post_age, issued, accepted, probe>>

config == <<NTFY_SERVER, CHECK_INTERVAL>>

\* one issued request: the token it carried (for login: the token it returned),
\* how it ended, and the reading a fetch produced
Req(op, tok, res, kg) == [op |-> op, tok |-> tok, res |-> res, kg |-> kg]

\* the poll loop calls the functions itself; no separate call is recorded
NoProbe == [fn |-> "none", arg |-> <<>>, out |-> <<>>, done |-> TRUE]

\* d seconds of wall-clock time pass
Elapse(d) ==
    /\ last_alert_age' = Tick(last_alert_age, d)
    /\ post_age' = Tick(post_age, d)

Init ==
    /\ pc = "login0"
    /\ token = "None"
    /\ new_token = "None"
    /\ hopper_kg = None
    /\ last_alert_age = None
    /\ NTFY_SERVER \in NtfyServers
    /\ CHECK_INTERVAL \in CheckIntervals
    /\ requests = <<>>
    /\ post_age = None
    /\ issued = {}
    /\ accepted = {}
    /\ probe = NoProbe

\* ---- where control goes (the try/except structure)

InitFailedContinue == "fetch1"
InitFailedRetry == "login0"
\* an exception at lines 178-179 is not caught: the process ends
InitFailed == "terminated"

FirstFetchFailedOnlyRequest(err) ==
    IF err \in ExtractionErrors THEN "except" ELSE "relogin"
\* any exception of the first get_hopper_kg enters the except of line 160
FirstFetchFailed(err) == "relogin"

FirstFetchReturnedRenew == "relogin"
\* line 159: return hopper_kg, token; main goes on at line 183
FirstFetchReturned == "decide"

RenewalFailedStale == "decide"
RenewalFailedRetry == "relogin"
\* an exception in lines 164-167 is re-raised (line 171) to main's except
RenewalFailed == "except"

CycleFailedFatal == "terminated"
\* main's except (lines 208-209) logs and falls through to the sleep
CycleFailed == "sleep"

SendReturnRaise(outcome) == IF outcome = "ok" THEN "stamp" ELSE "except"
\* send_ntfy_alert catches every exception of the POST (lines 140-145) and
\* returns to line 194
SendReturn(outcome) == "stamp"

ReturnedTokenOld(tok, new_tok) == tok
\* line 168: return hopper_kg, new_token; assigned by line 182
ReturnedToken(tok, new_tok) == new_tok

KeptTokenNew(tok, new_tok) == new_tok
\* line 182 assigns nothing when safe_get_hopper raises
KeptToken(tok, new_tok) == tok

AlertTimeAfterOkReset(age) == None
\* lines 197-207: the "Hopper OK" branch only logs; last_alert_time stays
AlertTimeAfterOk(age) == age

UrlRaisesNever(server) == FALSE
\* line 123: NTFY_SERVER.rstrip('/') raises AttributeError when NTFY_SERVER is
\* None, before the try block of line 140
UrlRaises(server) == server = "None"

SleepSecondsBackoff(interval, failed) == IF failed THEN 2 * interval ELSE interval
\* line 210: time.sleep(CHECK_INTERVAL), outside the try, after every cycle
SleepSeconds(interval, failed) == interval

should_send_strict(age) == age = None \/ age > MinAlertIntervalSeconds
\* lines 187-191
should_send(age) == age = None \/ age >= MinAlertIntervalSeconds

\* ---- startup (lines 175-179)

\* line 178: token = login_and_get_token(session)
InitLogin ==
    /\ pc = "login0"
    /\ \E resp \in LoginResponses, d \in 0..MaxDelay :
         LET r == login_and_get_token(resp)
         IN  /\ requests' = Append(requests,
                    Req("login", r.token, IF r.ok THEN "ok" ELSE "fail", None))
             /\ token' = IF r.ok THEN r.token ELSE token
             /\ pc' = IF r.ok THEN "accept0" ELSE InitFailed
             /\ issued' = IF r.ok THEN issued \cup {r.token} ELSE issued
             /\ Elapse(d)
    /\ UNCHANGED <<new_token, hopper_kg, config, accepted, probe>>

\* line 179: accept_terms(session, token); then the loop is entered
InitAcceptTerms ==
    /\ pc = "accept0"
    /\ \E ok \in BOOLEAN, d \in 0..MaxDelay :
         /\ IF ok
            THEN pc' = "fetch1" /\ requests' = <<>>
            ELSE /\ pc' = InitFailed
                 /\ requests' = Append(requests, Req("terms", token, "fail", None))
         /\ accepted' = IF ok THEN accepted \cup {token} ELSE accepted
         /\ Elapse(d)
    /\ UNCHANGED <<token, new_token, hopper_kg, config, issued, probe>>

\* ---- safe_get_hopper (lines 148-171), called at line 182

\* line 158: get_hopper_kg(session, token)
Fetch1 ==
    /\ pc = "fetch1"
    /\ \E resp \in FetchResponses, d \in 0..MaxDelay :
         LET r == get_hopper_kg(resp)
         IN  /\ requests' = Append(requests,
                    Req("fetch", token, IF r.ok THEN "ok" ELSE r.err, r.kg))
             /\ hopper_kg' = IF r.ok THEN r.kg ELSE hopper_kg
             /\ pc' = IF r.ok THEN FirstFetchReturned ELSE FirstFetchFailed(r.err)
             /\ Elapse(d)
    /\ UNCHANGED <<token, new_token, config, issued, accepted, probe>>

\* line 164: new_token = login_and_get_token(session)
ReLogin ==
    /\ pc = "relogin"
    /\ \E resp \in LoginResponses, d \in 0..MaxDelay :
         LET r == login_and_get_token(resp)
         IN  /\ requests' = Append(requests,
                    Req("login", r.token, IF r.ok THEN "ok" ELSE "fail", None))
             /\ new_token' = IF r.ok THEN r.token ELSE new_token
             /\ pc' = IF r.ok THEN "reaccept" ELSE RenewalFailed
             /\ issued' = IF r.ok THEN issued \cup {r.token} ELSE issued
             /\ Elapse(d)
    /\ UNCHANGED <<token, hopper_kg, config, accepted, probe>>

\* line 165: accept_terms(session, new_token)
ReAcceptTerms ==
    /\ pc = "reaccept"
    /\ \E ok \in BOOLEAN, d \in 0..MaxDelay :
         /\ requests' = Append(requests,
                Req("terms", new_token, IF ok THEN "ok" ELSE "fail", None))
         /\ pc' = IF ok THEN "fetch2" ELSE RenewalFailed
         /\ token' = IF ok THEN token ELSE KeptToken(token, new_token)
         /\ new_token' = IF ok THEN new_token ELSE "None"
         /\ accepted' = IF ok THEN accepted \cup {new_token} ELSE accepted
         /\ Elapse(d)
    /\ UNCHANGED <<hopper_kg, config, issued, probe>>

\* lines 167-168: get_hopper_kg(session, new_token); return hopper_kg, new_token
Fetch2 ==
    /\ pc = "fetch2"
    /\ \E resp \in FetchResponses, d \in 0..MaxDelay :
         LET r == get_hopper_kg(resp)
         IN  /\ requests' = Append(requests,
                    Req("fetch", new_token, IF r.ok THEN "ok" ELSE r.err, r.kg))
             /\ hopper_kg' = IF r.ok THEN r.kg ELSE hopper_kg
             /\ token' = IF r.ok THEN ReturnedToken(token, new_token)
                         ELSE KeptToken(token, new_token)
             /\ pc' = IF r.ok THEN "decide" ELSE RenewalFailed
             /\ Elapse(d)
    /\ new_token' = "None"
    /\ UNCHANGED <<config, issued, accepted, probe>>

\* ---- the rest of the cycle (lines 183-210)

PostOutcomes == {"ok", "http_error", "network_error"}

\* lines 183-207: the threshold test and the cooldown test
Decide ==
    /\ pc = "decide"
    /\ pc' = IF hopper_kg <= LOW_THRESHOLD_KG * 10
             THEN (IF should_send(last_alert_age) THEN "send" ELSE "sleep")
             ELSE "sleep"
    /\ last_alert_age' = IF hopper_kg <= LOW_THRESHOLD_KG * 10
                         THEN last_alert_age
                         ELSE AlertTimeAfterOk(last_alert_age)
    /\ UNCHANGED <<token, new_token, hopper_kg, config, requests, post_age,
                   issued, accepted, probe>>

\* line 193: send_ntfy_alert(hopper_kg, percent).  With NTFY_SERVER unset,
\* line 123 raises before the try block and no POST is issued.
Send ==
    /\ pc = "send"
    /\ IF UrlRaises(NTFY_SERVER)
       THEN /\ pc' = "except"
            /\ UNCHANGED <<requests, post_age, last_alert_age>>
       ELSE \E outcome \in PostOutcomes, d \in 0..MaxDelay :
              /\ requests' = Append(requests, Req("post", "None", outcome, hopper_kg))
              /\ post_age' = Tick(0, d)
              /\ last_alert_age' = Tick(last_alert_age, d)
              /\ pc' = SendReturn(outcome)
    /\ UNCHANGED <<token, new_token, hopper_kg, config, issued, accepted, probe>>

\* line 194: last_alert_time = datetime.now(timezone.utc)
Stamp ==
    /\ pc = "stamp"
    /\ last_alert_age' = 0
    /\ pc' = "sleep"
    /\ UNCHANGED <<token, new_token, hopper_kg, config, requests, post_age,
                   issued, accepted, probe>>

\* lines 208-209: except Exception: logging.error(...)
HandleFailure ==
    /\ pc = "except"
    /\ pc' = CycleFailed
    /\ UNCHANGED <<token, new_token, hopper_kg, last_alert_age, config,
                   requests, post_age, issued, accepted, probe>>

\* safe_get_hopper raised in the cycle that just ended
CycleHasFailed ==
    /\ requests # <<>>
    /\ requests[Len(requests)].op # "post"
    /\ requests[Len(requests)].res # "ok"

\* line 210: time.sleep(CHECK_INTERVAL), then the next iteration
Sleep ==
    /\ pc = "sleep"
    /\ Elapse(SleepSeconds(CHECK_INTERVAL, CycleHasFailed))
    /\ requests' = <<>>
    /\ pc' = "fetch1"
    /\ UNCHANGED <<token, new_token, hopper_kg, config, issued, accepted, probe>>

Next ==
    \/ InitLogin
    \/ InitAcceptTerms
    \/ Fetch1
    \/ ReLogin
    \/ ReAcceptTerms
    \/ Fetch2
    \/ Decide
    \/ Send
    \/ Stamp
    \/ HandleFailure
    \/ Sleep

Spec == Init /\ [][Next]_vars

\* every HTTP call carries a timeout and the sleep is finite, so a process
\* that has not ended always takes its next step
FairSpec == Spec /\ WF_vars(Next)

\* ---- the pure functions on their own: one call each, on a drawn response

\* telemetry payloads with two matching entries in a list, and with an entry
\* that has the right unit under another id
TwoFront == {List(<<FrontItem(v), OtherFront, FrontItem(w)>>) :
                v \in RawValues, w \in RawValues}
TwoHopper == {List(<<HopperItem(v), HopperItem(w)>>) :
                v \in RawValues, w \in RawValues}
WrongIdHopper == [id |-> "4", unit |-> "LNG_KG", value |-> <<"7">>]

ProbePayloads ==
    FetchResponses
    \cup [kind : {"json"}, frontdata : TwoFront,
          hopperdata : {List(<<>>), List(<<OtherHopper, HopperItem(<<"1", "4", "0">>)>>)}]
    \cup [kind : {"json"}, frontdata : {List(<<>>), NotAList, List(<<OtherFront>>)},
          hopperdata : TwoHopper \cup {List(<<WrongIdHopper>>)}]

PendingReading == [ok |-> FALSE, kg |-> None, err |-> "pending"]
PendingToken == [ok |-> FALSE, token |-> "pending"]

PureInit ==
    /\ pc = "probe"
    /\ token = "None"
    /\ new_token = "None"
    /\ hopper_kg = None
    /\ last_alert_age = None
    /\ NTFY_SERVER = "None"
    /\ CHECK_INTERVAL = 60
    /\ requests = <<>>
    /\ post_age = None
    /\ issued = {}
    /\ accepted = {}
    /\ \/ \E resp \in ProbePayloads :
            probe = [fn |-> "get_hopper_kg", arg |-> resp,
                     out |-> PendingReading, done |-> FALSE]
       \/ \E resp \in LoginResponses :
            probe = [fn |-> "login_and_get_token", arg |-> resp,
                     out |-> PendingToken, done |-> FALSE]

unprobed == <<pc, token, new_token, hopper_kg, last_alert_age, NTFY_SERVER,
              CHECK_INTERVAL, requests, post_age, issued, accepted>>

\* lines 84-120 applied to the drawn response
CallGetHopperKg ==
    /\ probe.fn = "get_hopper_kg"
    /\ ~probe.done
    /\ probe' = [probe EXCEPT !.out = get_hopper_kg(probe.arg), !.done = TRUE]
    /\ UNCHANGED unprobed

\* lines 41-57 applied to the drawn response
CallLogin ==
    /\ probe.fn = "login_and_get_token"
    /\ ~probe.done
    /\ probe' = [probe EXCEPT !.out = login_and_get_token(probe.arg), !.done = TRUE]
    /\ UNCHANGED unprobed

PureNext ==
    \/ CallGetHopperKg
    \/ CallLogin

PureSpec == PureInit /\ [][PureNext]_vars

\* ---- shorthands for the properties

InLoop == pc \notin {"login0", "accept0", "terminated"}

Count(op) == Cardinality({i \in DOMAIN requests : requests[i].op = op})

\* the current cycle started with a failed first fetch
FirstFetchFailedInCycle ==
    /\ requests # <<>>
    /\ requests[1].op = "fetch"
    /\ requests[1].res # "ok"

TypeOK ==
    /\ pc \in {"login0", "accept0", "terminated", "fetch1", "relogin", "reaccept",
               "fetch2", "decide", "send", "stamp", "except", "sleep"}
    /\ token \in Tokens \cup {"None"}
    /\ new_token \in Tokens \cup {"None"}
    /\ hopper_kg \in {None} \cup 0..2000
    /\ last_alert_age \in {None} \cup 0..AgeCap
    /\ post_age \in {None} \cup 0..AgeCap
    /\ Len(requests) <= 5
    /\ issued \subseteq Tokens
    /\ accepted \subseteq Tokens

Last(seq) == seq[Len(seq)]

\* ---- properties

\* C1: when the first fetch of a cycle fails, the requests that follow are, in
\* this order, login, acceptTerms with the token login returned, and a fetch
\* with that token; when that second fetch succeeds the loop holds its reading
\* and the new token.  The loop's token changes at no other step after
\* startup, and every cycle's first fetch carries the loop's token.
C1_RecoveryState ==
    FirstFetchFailedInCycle =>
      /\ Len(requests) >= 2 => requests[2].op = "login"
      /\ Len(requests) >= 3 =>
            /\ requests[2].res = "ok"
            /\ requests[3].op = "terms"
            /\ requests[3].tok = requests[2].tok
      /\ Len(requests) >= 4 =>
            /\ requests[3].res = "ok"
            /\ requests[4].op = "fetch"
            /\ requests[4].tok = requests[2].tok
      /\ (Len(requests) >= 4 /\ requests[4].res = "ok") =>
            /\ token = requests[2].tok
            /\ hopper_kg = requests[4].kg
            /\ pc \notin {"relogin", "reaccept", "fetch2"}

C1_TokenStep ==
    /\ (InLoop /\ token' # token) => (pc = "fetch2" /\ pc' = "decide")
    /\ pc = "fetch1" => requests'[1].tok = token

C1_Recovery == [](C1_RecoveryState) /\ [][C1_TokenStep]_vars

C1_Witness ==
    /\ pc = "decide"
    /\ Len(requests) = 4
    /\ requests[4].res = "ok"
    /\ requests[1].tok # requests[4].tok
    /\ token = requests[4].tok

\* C2: a cycle issues at most two fetches, one login and one acceptTerms; a
\* failed login, acceptTerms or second fetch is the cycle's last request and
\* control is then in main's handler (or past it, at the sleep).
C2_OneRecoveryAttempt ==
    InLoop =>
      /\ Count("fetch") <= 2
      /\ Count("login") <= 1
      /\ Count("terms") <= 1
      /\ \A i \in 2..Len(requests) :
            (requests[i].op # "post" /\ requests[i].res # "ok") =>
                (i = Len(requests) /\ pc \in {"except", "sleep"})

C2_Witness ==
    /\ pc = "except"
    /\ Len(requests) = 4
    /\ requests[1].res # "ok"
    /\ requests[4].op = "fetch"
    /\ requests[4].res # "ok"

\* C3: the step that follows a reading calls send_ntfy_alert exactly when the
\* reading is at or below the threshold and the last alert time is absent or
\* at least MIN_ALERT_INTERVAL_MIN minutes old; nothing else leads to a send.
C3_DecideStep ==
    /\ pc = "decide" =>
         ((pc' = "send") <=>
            /\ hopper_kg <= LOW_THRESHOLD_KG * 10
            /\ (last_alert_age = None
                \/ last_alert_age >= MIN_ALERT_INTERVAL_MIN * 60))
    /\ pc' = "send" => pc = "decide"

C3_AlertIff == [][C3_DecideStep]_vars

\* reading equal to the threshold, elapsed time equal to the interval
C3_Witness ==
    /\ pc = "send"
    /\ hopper_kg = LOW_THRESHOLD_KG * 10
    /\ last_alert_age = MIN_ALERT_INTERVAL_MIN * 60

C5_LoopForever ==
    /\ [](InLoop => <>(pc = "sleep"))
    /\ [](pc = "sleep" => <>(pc = "fetch1"))

\* a cycle whose re-login failed has reached the sleep
C5_Witness ==
    /\ pc = "sleep"
    /\ Len(requests) = 2
    /\ requests[2].op = "login"
    /\ requests[2].res = "fail"

\* C6: after a cycle whose notification POST failed, the alert gate is not in
\* cooldown: the last alert time is absent or at least the interval old.
C6_StampOnlyAfterDelivery ==
    (pc = "sleep" /\ requests # <<>> /\ Last(requests).op = "post"
       /\ Last(requests).res # "ok") =>
        (last_alert_age = None \/ last_alert_age >= MIN_ALERT_INTERVAL_MIN * 60)

\* C7: whatever the outcome of the notification POST, control returns to the
\* statement after the call (line 194) and never reaches main's handler.
C7_SendNeverRaises ==
    (requests # <<>> /\ Last(requests).op = "post") => pc \in {"stamp", "sleep"}

C7_Witness ==
    /\ pc = "stamp"
    /\ Last(requests).op = "post"
    /\ Last(requests).res = "network_error"

\* C8: a failed initial login or acceptTerms ends the process: it is the last
\* request ever issued, no fetch and no notification is issued before the loop
\* is entered, and the ended process takes no further step.
C8_StartupState ==
    ~InLoop =>
      /\ Count("fetch") = 0
      /\ Count("post") = 0
      /\ Count("login") <= 1
      /\ Count("terms") <= 1
      /\ (requests # <<>> /\ Last(requests).res = "fail") <=> pc = "terminated"

C8_InitFatal == [](C8_StartupState) /\ [][pc = "terminated" => pc' = "terminated"]_vars

C8_Witness ==
    /\ pc = "terminated"
    /\ Len(requests) = 2
    /\ requests[2].op = "terms"

\* C9 as stated: after a cycle whose first fetch failed and whose login
\* succeeded, the loop holds the token that login returned, whatever happened
\* to acceptTerms and to the second fetch.
C9_Original ==
    (pc = "sleep" /\ FirstFetchFailedInCycle /\ Len(requests) >= 2
       /\ requests[2].res = "ok") =>
        token = requests[2].tok

\* C9 amended: after such a cycle the loop holds the new token when acceptTerms
\* and the second fetch succeeded as well, and the token it had before when
\* either of them failed; the next cycle's first fetch carries the loop's token.
C9_EndOfCycle ==
    (pc \in {"except", "sleep"} /\ FirstFetchFailedInCycle /\ Len(requests) >= 2
       /\ requests[2].res = "ok") =>
        IF Len(requests) >= 4 /\ requests[4].res = "ok"
        THEN token = requests[2].tok
        ELSE token = requests[1].tok

C9_Amended ==
    [](C9_EndOfCycle) /\ [][pc = "fetch1" => requests'[1].tok = token]_vars

\* login returned another token, the second fetch failed, the old token is kept
C9_Witness ==
    /\ pc = "sleep"
    /\ Len(requests) = 4
    /\ requests[4].res # "ok"
    /\ requests[2].tok # requests[1].tok
    /\ token = requests[1].tok

ExpectedReading(v) ==
    CASE v = <<"1", "3", "9", ",", "9">> -> 1399
      [] v = <<"1", "4", "0">> -> 1400
      [] v = <<"1", "4", "0", ".", "1">> -> 1401
      [] v = <<"7">> -> 70
      [] v = <<"6", "5">> -> 650
      [] OTHER -> None

Lowest(S) == CHOOSE i \in S : \A j \in S : i <= j

\* C11: the reading is that of the first frontdata entry with id
\* "hoppercontent" whenever there is one, whatever hopperdata holds; otherwise
\* that of the first hopperdata entry with id "3" and unit "LNG_KG"; with no
\* matching entry in either list the call raises and returns no reading.  (An
\* entry that is selected but holds no number makes the call raise; the other
\* list is not tried.)
C11_ExtractionOrder ==
    (probe.fn = "get_hopper_kg" /\ probe.done /\ probe.arg.kind = "json") =>
      LET fd == probe.arg.frontdata
          hd == probe.arg.hopperdata
          fm == IF fd.islist
                THEN {i \in DOMAIN fd.items : fd.items[i].id = "hoppercontent"}
                ELSE {}
          hm == IF hd.islist
                THEN {i \in DOMAIN hd.items :
                        hd.items[i].id = "3" /\ hd.items[i].unit = "LNG_KG"}
                ELSE {}
          src == IF fm # {} THEN fd.items[Lowest(fm)].value
                 ELSE hd.items[Lowest(hm)].value
      IN  IF fm = {} /\ hm = {}
          THEN ~probe.out.ok /\ probe.out.err = "RuntimeError"
          ELSE IF ExpectedReading(src) = None
          THEN ~probe.out.ok /\ probe.out.err = "ValueError"
          ELSE probe.out.ok /\ probe.out.kg = ExpectedReading(src)

\* two frontdata matches and a hopperdata match, all with different values
C11_Witness ==
    /\ probe.fn = "get_hopper_kg"
    /\ probe.done
    /\ probe.arg.frontdata =
         List(<<FrontItem(<<"1", "3", "9", ",", "9">>), OtherFront,
                FrontItem(<<"1", "4", "0", ".", "1">>)>>)
    /\ probe.arg.hopperdata = List(<<OtherHopper, HopperItem(<<"1", "4", "0">>)>>)
    /\ probe.out.ok
    /\ probe.out.kg = 1399

\* C16: login returns the value of the first of "token", "Token", "TOKEN" that
\* is present and non-empty, and raises, returning no token, on an HTTP error,
\* a body that is no JSON, or no such value; a returned token is never empty.
C16_LoginToken ==
    (probe.fn = "login_and_get_token" /\ probe.done) =>
      LET cands == <<probe.arg.token, probe.arg.Token, probe.arg.TOKEN>>
          good == {i \in 1..3 : cands[i] # "None" /\ cands[i] # ""}
      IN  IF probe.arg.kind = "json" /\ good # {}
          THEN /\ probe.out.ok
               /\ probe.out.token = cands[Lowest(good)]
               /\ probe.out.token \in Tokens
          ELSE ~probe.out.ok /\ probe.out.token = "None"

\* "token" empty, "Token" and "TOKEN" hold different tokens
C16_Witness ==
    /\ probe.fn = "login_and_get_token"
    /\ probe.done
    /\ probe.arg.token = ""
    /\ probe.arg.Token = "t1"
    /\ probe.arg.TOKEN = "t2"
    /\ probe.out.ok
    /\ probe.out.token = "t1"

\* C12: a cycle whose reading is above the threshold goes straight to the
\* sleep, issues no request and leaves the last alert time as it is; a cycle
\* inside the cooldown window does not send, whatever its reading; and a last
\* alert time, once set, only grows older until the next stamp.
C12_Step ==
    /\ (pc = "decide" /\ hopper_kg > LOW_THRESHOLD_KG * 10) =>
          /\ pc' = "sleep"
          /\ last_alert_age' = last_alert_age
          /\ requests' = requests
          /\ post_age' = post_age
    /\ (pc = "decide" /\ last_alert_age # None
          /\ last_alert_age < MIN_ALERT_INTERVAL_MIN * 60) => pc' = "sleep"
    /\ (last_alert_age # None /\ pc # "stamp") =>
          (last_alert_age' # None /\ last_alert_age' >= last_alert_age)

C12_NoHysteresis == [][C12_Step]_vars

\* a cycle with a reading above the threshold has ended inside the cooldown window
C12_Witness ==
    /\ pc = "sleep"
    /\ hopper_kg > LOW_THRESHOLD_KG * 10
    /\ Len(requests) = 1
    /\ requests[1].res = "ok"
    /\ last_alert_age # None
    /\ last_alert_age < MIN_ALERT_INTERVAL_MIN * 60

\* C13: in a cycle whose first fetch succeeded there is no login, no
\* acceptTerms and no second fetch, and the loop's token is the one that fetch
\* carried.
C13_FirstFetchOk ==
    (InLoop /\ requests # <<>> /\ requests[1].op = "fetch" /\ requests[1].res = "ok") =>
        /\ Count("login") = 0
        /\ Count("terms") = 0
        /\ Count("fetch") = 1
        /\ token = requests[1].tok
        /\ new_token = "None"

\* a first fetch succeeded after an earlier cycle had renewed the token
C13_Witness ==
    /\ pc = "decide"
    /\ Len(requests) = 1
    /\ requests[1].res = "ok"
    /\ Cardinality(accepted) = 2

\* C14: every way a cycle ends leads to the sleep, a new cycle starts only
\* from the sleep, and the sleep lets exactly CHECK_INTERVAL seconds pass,
\* whatever happened in the cycle.
C14_Step ==
    /\ pc = "sleep" =>
          /\ pc' = "fetch1"
          /\ last_alert_age' = Tick(last_alert_age, CHECK_INTERVAL)
          /\ post_age' = Tick(post_age, CHECK_INTERVAL)
    /\ (InLoop /\ pc' = "fetch1") => pc = "sleep"
    /\ pc \in {"except", "stamp"} => pc' = "sleep"
    /\ (pc = "decide" /\ pc' # "send") => pc' = "sleep"

C14_FixedSleep == [][C14_Step]_vars

\* a failed cycle is at the sleep, and the age of the last alert is low enough
\* for the length of the sleep to show
C14_Witness ==
    /\ pc = "sleep"
    /\ CycleHasFailed
    /\ last_alert_age # None
    /\ last_alert_age + CHECK_INTERVAL < AgeCap

\* C15: with NTFY_SERVER unset the loop is still entered; no notification POST
\* is ever issued; a cycle that decides to alert goes from the call of
\* send_ntfy_alert to main's handler, and from there the loop goes on.
C15_State ==
    /\ NTFY_SERVER = "None" =>
          (Count("post") = 0 /\ post_age = None /\ last_alert_age = None)
    /\ pc = "terminated" => (requests # <<>> /\ Last(requests).res = "fail")

C15_Step ==
    /\ (NTFY_SERVER = "None" /\ pc = "send") => (pc' = "except" /\ requests' = requests)
    /\ InLoop => pc' # "terminated"

C15_NoServer == [](C15_State) /\ [][C15_Step]_vars

\* a low reading with no earlier alert, no POST in the cycle, now at the sleep
C15_Witness ==
    /\ NTFY_SERVER = "None"
    /\ pc = "sleep"
    /\ Len(requests) = 1
    /\ requests[1].res = "ok"
    /\ hopper_kg <= LOW_THRESHOLD_KG * 10

\* C17: after a cycle in which safe_get_hopper raised, the loop's token is
\* the one the first fetch carried and no POST was issued; while
\* safe_get_hopper and the handler run, the last alert time only ages, and a
\* step that fails leaves hopper_kg as it is.
C17_State ==
    (pc \in {"except", "sleep"} /\ CycleHasFailed) =>
        /\ token = requests[1].tok
        /\ Count("post") = 0

C17_Step ==
    pc \in {"fetch1", "relogin", "reaccept", "fetch2", "except"} =>
        /\ \E d \in 0..MaxDelay : last_alert_age' = Tick(last_alert_age, d)
        /\ pc' # "decide" => hopper_kg' = hopper_kg

C17_FailedCycleFrame == [](C17_State) /\ [][C17_Step]_vars

\* an alert was sent earlier; now login returned another token, the second
\* fetch failed and the cycle is over
C17_Witness ==
    /\ pc = "sleep"
    /\ Len(requests) = 4
    /\ requests[4].res # "ok"
    /\ requests[2].tok # requests[1].tok
    /\ last_alert_age # None
    /\ hopper_kg # None

\* C18: every fetch carries a token that login has returned and accept_terms
\* has succeeded with, and so does the fetch about to be issued; after a
\* failed accept_terms no fetch follows in that call.
C18_FetchTokens ==
    /\ \A i \in DOMAIN requests :
          /\ requests[i].op = "fetch" =>
                (requests[i].tok \in issued /\ requests[i].tok \in accepted)
          /\ (requests[i].op = "terms" /\ requests[i].res = "fail") =>
                i = Len(requests)
    /\ pc = "fetch1" => (token \in issued /\ token \in accepted)
    /\ pc = "fetch2" => (new_token \in issued /\ new_token \in accepted)

\* a fetch was issued while login has returned a token whose accept_terms
\* never succeeded
C18_Witness ==
    /\ requests # <<>>
    /\ requests[1].op = "fetch"
    /\ Len(requests) = 1
    /\ issued \ accepted # {}

\* C19: a cycle issues at most one POST; send_ntfy_alert is called, and a POST
\* issued, only in a cycle whose own fetch succeeded with a reading at or below
\* the threshold, and it is that reading the loop holds and the POST carries.
C19_OneAlertPerCycle ==
    /\ Count("post") <= 1
    /\ (pc \in {"send", "stamp"} \/ Count("post") = 1) =>
          LET fs == {i \in DOMAIN requests :
                        requests[i].op = "fetch" /\ requests[i].res = "ok"}
          IN  /\ Cardinality(fs) = 1
              /\ \A i \in fs :
                    /\ requests[i].kg = hopper_kg
                    /\ requests[i].kg <= LOW_THRESHOLD_KG * 10
                    /\ \A j \in DOMAIN requests :
                          requests[j].op = "post" =>
                             (j = i + 1 /\ requests[j].kg = requests[i].kg)

\* the POST follows a recovery: fetch, login, terms, fetch, post
C19_Witness ==
    /\ pc = "stamp"
    /\ Len(requests) = 5
    /\ requests[5].op = "post"

====
